---- MODULE Spec2Model ----
(***************************************************************************)
(* regtest: an interactive front-end for the regex crate.                  *)
(* Model of src/src/main.rs: the Config bit flags, options_menu, the two   *)
(* prompt loops (regex_prompt, prompt), with_history_file and main.        *)
(* A line is a sequence of one-character strings, so that the dispatch of  *)
(* options_menu is an equality of character sequences.                     *)
(***************************************************************************)
EXTENDS Integers, Sequences, FiniteSets, TLC

VARIABLES
    args,       \* the command-line arguments clap reports as present
    histEnv,    \* platform and environment seen by with_history_file
    pc,         \* position of main: main, load, regex, test, save, done, panic
    config,     \* Config.bits, a u32
    reg,        \* the Regex held by prompt (its source), or None
    line,       \* the line returned by the last readline, or None
    out,        \* what the last step wrote to stderr/stdout, in order
    ret,        \* value last returned by regex_prompt: none, true, false
    nread,      \* number of lines read so far
    readAt,     \* the prompt of the last read: none, regex, test
    toggledAt,  \* the prompt of the last :v, :t or :g read: none, regex, test
    history,    \* calls of editor.add_history_entry: their number and the
                \* entry of the last one
    panicAt,    \* none, or the call whose expect/unwrap panicked
    histTried,  \* calls of with_history_file made after the main loop
    histSaved,  \* calls of editor.save_history
    histFail    \* none, or the history step that failed: locate, load, save

vars == <<args, histEnv, pc, config, reg, line, out, ret, nread, readAt,
          toggledAt, history, panicAt, histTried, histSaved, histFail>>

(* ------------------------------ bounds -------------------------------- *)

\* lines read in one session
MaxReads == 3

(* --------------------------- Config (bitflags) ------------------------ *)

VERBOSE_ERRORS == 1
CAPTURE_GROUPS == 2
COMPILE_TIME == 4

RECURSIVE BitAnd(_, _)
BitAnd(a, b) ==
    IF a = 0 \/ b = 0 THEN 0
    ELSE (a % 2) * (b % 2) + 2 * BitAnd(a \div 2, b \div 2)

RECURSIVE BitOr(_, _)
BitOr(a, b) ==
    IF a = 0 THEN b
    ELSE IF b = 0 THEN a
    ELSE (IF a % 2 = 1 \/ b % 2 = 1 THEN 1 ELSE 0) + 2 * BitOr(a \div 2, b \div 2)

RECURSIVE BitXor(_, _)
BitXor(a, b) ==
    IF a = 0 THEN b
    ELSE IF b = 0 THEN a
    ELSE ((a + b) % 2) + 2 * BitXor(a \div 2, b \div 2)

\* a & !b on a u32
RECURSIVE BitAndNot(_, _)
BitAndNot(a, b) ==
    IF a = 0 THEN 0
    ELSE (a % 2) * (1 - (b % 2)) + 2 * BitAndNot(a \div 2, b \div 2)

Contains(c, flag) ==
    BitAnd(c, flag) = flag

Toggle(c, flag) ==
    BitXor(c, flag)

Insert(c, flag) ==
    BitOr(c, flag)

Remove(c, flag) ==
    BitAndNot(c, flag)

ConfigDefault ==
    BitOr(VERBOSE_ERRORS, COMPILE_TIME)

(* ------------------------------- lines -------------------------------- *)

\* Option::None; distinct from every line, whose elements are characters
None == <<"None">>

CmdQ == <<":", "q">>
CmdV == <<":", "v">>
CmdT == <<":", "t">>
CmdB == <<":", "b">>
CmdG == <<":", "g">>
CmdH == <<":", "h">>
CmdHelp == <<":", "?">>

Commands ==
    {CmdQ, CmdV, CmdT, CmdB, CmdG, CmdH, CmdHelp}

\* the lines a user types in the model: the commands, the empty line, two
\* near-misses of :q, patterns that compile, one that does not, test inputs
OtherLines ==
    { <<>>,
      <<":", "q", " ">>,
      <<":", "Q">>,
      <<"a", ".", "c">>,
      <<"a", "b", "c">>,
      <<"a", "b">>,
      <<"(", "b", ")", "?", "c">>,
      <<"(">> }

Lines ==
    Commands \cup OtherLines

RECURSIVE Str(_)
Str(s) ==
    IF s = <<>> THEN "" ELSE Head(s) \o Str(Tail(s))

(* --------------------- the regex engine, as used ---------------------- *)
(* The subset of the regex crate's syntax the lines above use: literal     *)
(* characters, ".", groups "( )" and the greedy postfix "?".               *)

\* index of the ")" that closes the "(" at p[i-1], scanning from i at depth d;
\* 0 when there is none
RECURSIVE CloseFrom(_, _, _)
CloseFrom(p, i, d) ==
    IF i > Len(p) THEN 0
    ELSE IF p[i] = "(" THEN CloseFrom(p, i + 1, d + 1)
    ELSE IF p[i] = ")" THEN (IF d = 0 THEN i ELSE CloseFrom(p, i + 1, d - 1))
    ELSE CloseFrom(p, i + 1, d)

\* parse check of p[i..] at group depth d; prev tells whether p[i-1] ends an
\* atom a "?" can apply to
RECURSIVE ParseErr(_, _, _, _)
ParseErr(p, i, d, prev) ==
    IF i > Len(p) THEN (IF d > 0 THEN "UnclosedParen" ELSE "")
    ELSE IF p[i] = "(" THEN ParseErr(p, i + 1, d + 1, FALSE)
    ELSE IF p[i] = ")" THEN
        (IF d = 0 THEN "UnopenedParen" ELSE ParseErr(p, i + 1, d - 1, TRUE))
    ELSE IF p[i] = "?" THEN
        (IF prev THEN ParseErr(p, i + 1, d, FALSE) ELSE "RepeaterExpectsExpr")
    ELSE ParseErr(p, i + 1, d, TRUE)

\* Regex::new(&line): Ok(regex) or Err(e)
RegexNew(l) ==
    LET e == ParseErr(l, 1, 0, FALSE)
    IN  [ok |-> e = "", reg |-> l, err |-> e]

NGroups(p) ==
    Cardinality({i \in 1..Len(p) : p[i] = "("})

\* the threads of a backtracking match of p against t, in priority order;
\* th = [pos, caps] is the thread so far, g the number of groups opened
\* before p
RECURSIVE MatchSeq(_, _, _, _)
RECURSIVE MatchAll(_, _, _, _, _)
MatchSeq(p, t, th, g) ==
    IF p = <<>> THEN <<th>>
    ELSE
      LET isGrp   == p[1] = "("
          atomLen == IF isGrp THEN CloseFrom(p, 2, 0) ELSE 1
          opt     == Len(p) > atomLen /\ p[atomLen + 1] = "?"
          rest    == SubSeq(p, atomLen + (IF opt THEN 2 ELSE 1), Len(p))
          gAfter  == g + NGroups(SubSeq(p, 1, atomLen))
          inner   == MatchSeq(SubSeq(p, 2, atomLen - 1), t, th, g + 1)
          atomTh  ==
              IF isGrp THEN
                  [i \in 1..Len(inner) |->
                      [pos  |-> inner[i].pos,
                       caps |-> [j \in 1..Len(th.caps) |->
                                    IF j = g + 1
                                    THEN <<th.pos, inner[i].pos>>
                                    ELSE inner[i].caps[j]]]]
              ELSE IF th.pos < Len(t) /\ (p[1] = "." \/ p[1] = t[th.pos + 1])
                   THEN <<[pos |-> th.pos + 1, caps |-> th.caps]>>
                   ELSE <<>>
          starts  == atomTh \o (IF opt THEN <<th>> ELSE <<>>)
      IN  MatchAll(rest, t, starts, 1, gAfter)

MatchAll(p, t, ths, i, g) ==
    IF i > Len(ths) THEN <<>>
    ELSE MatchSeq(p, t, ths[i], g) \o MatchAll(p, t, ths, i + 1, g)

MatchAt(p, t, k) ==
    MatchSeq(p, t, [pos |-> k, caps |-> [i \in 1..NGroups(p) |-> None]], 0)

\* reg.is_match(&line): an unanchored search
IsMatch(p, t) ==
    \E k \in 0..Len(t) : MatchAt(p, t, k) # <<>>

\* reg.captures(&line): None, or the groups of the leftmost match, group 0
\* first; a group is None or the text it matched
Captures(p, t) ==
    IF ~IsMatch(p, t) THEN None
    ELSE
      LET k  == CHOOSE k \in 0..Len(t) :
                    /\ MatchAt(p, t, k) # <<>>
                    /\ \A j \in 0..(k - 1) : MatchAt(p, t, j) = <<>>
          th == MatchAt(p, t, k)[1]
          sp == [i \in 1..(Len(th.caps) + 1) |->
                    IF i = 1 THEN <<k, th.pos>> ELSE th.caps[i - 1]]
      IN  [i \in 1..Len(sp) |->
              IF sp[i] = None THEN None
              ELSE SubSeq(t, sp[i][1] + 1, sp[i][2])]

(* ---------------------------- options_menu ---------------------------- *)

HELP == "HELP"

\* mutant: :b leaves the program like :q
MenuAction_bExits(l) ==
    IF l = CmdQ \/ l = CmdB THEN "Exit"
    ELSE IF l \in {CmdV, CmdT, CmdG, CmdH, CmdHelp} THEN "Loop"
    ELSE "Continue"

\* mutant: :b is one more command that loops
MenuAction_bLoops(l) ==
    IF l = CmdQ THEN "Exit"
    ELSE IF l \in {CmdV, CmdT, CmdB, CmdG, CmdH, CmdHelp} THEN "Loop"
    ELSE "Continue"

\* mutant: the line is trimmed before it is compared
MenuAction_trimmed(l) ==
    IF l = CmdQ \/ l = CmdQ \o <<" ">> THEN "Exit"
    ELSE IF l \in {CmdV, CmdT, CmdG, CmdH, CmdHelp} THEN "Loop"
    ELSE IF l = CmdB THEN "ToRegexPrompt"
    ELSE "Continue"

\* mutant: the help arm matches :h only
MenuAction_noQuestion(l) ==
    IF l = CmdQ THEN "Exit"
    ELSE IF l \in {CmdV, CmdT, CmdG, CmdH} THEN "Loop"
    ELSE IF l = CmdB THEN "ToRegexPrompt"
    ELSE "Continue"

\* the Action of the arm of options_menu that the line selects
MenuAction(l) ==
    IF l = CmdQ THEN "Exit"
    ELSE IF l = CmdV THEN "Loop"
    ELSE IF l = CmdT THEN "Loop"
    ELSE IF l = CmdB THEN "ToRegexPrompt"
    ELSE IF l = CmdG THEN "Loop"
    ELSE IF l = CmdH \/ l = CmdHelp THEN "Loop"
    ELSE "Continue"

\* mutant: the :g arm toggles the flag of the :t arm
MenuConfig_swapped(l, c) ==
    IF l = CmdV THEN Toggle(c, VERBOSE_ERRORS)
    ELSE IF l = CmdT THEN Toggle(c, COMPILE_TIME)
    ELSE IF l = CmdG THEN Toggle(c, COMPILE_TIME)
    ELSE c

\* mutant: the :v arm inserts the flag instead of toggling it
MenuConfig_insert(l, c) ==
    IF l = CmdV THEN Insert(c, VERBOSE_ERRORS)
    ELSE IF l = CmdT THEN Toggle(c, COMPILE_TIME)
    ELSE IF l = CmdG THEN Toggle(c, CAPTURE_GROUPS)
    ELSE c

\* config after the arm has run
MenuConfig(l, c) ==
    IF l = CmdV THEN Toggle(c, VERBOSE_ERRORS)
    ELSE IF l = CmdT THEN Toggle(c, COMPILE_TIME)
    ELSE IF l = CmdG THEN Toggle(c, CAPTURE_GROUPS)
    ELSE c

\* mutant: the status is that of the flag before the toggle
MenuOut_stale(l, c2) ==
    IF l = CmdV THEN
        IF ~Contains(c2, VERBOSE_ERRORS)
        THEN <<"Verbose errors: on">> ELSE <<"Verbose errors: off">>
    ELSE IF l = CmdT THEN
        IF ~Contains(c2, COMPILE_TIME)
        THEN <<"Show compile time: on">> ELSE <<"Show compile time: off">>
    ELSE IF l = CmdG THEN
        IF ~Contains(c2, CAPTURE_GROUPS)
        THEN <<"Show capture groups: on">> ELSE <<"Show capture groups: off">>
    ELSE IF l = CmdH \/ l = CmdHelp THEN <<HELP>>
    ELSE <<>>

\* what the arm writes to stderr, c2 being config after the toggle
MenuOut(l, c2) ==
    IF l = CmdV THEN
        IF Contains(c2, VERBOSE_ERRORS)
        THEN <<"Verbose errors: on">> ELSE <<"Verbose errors: off">>
    ELSE IF l = CmdT THEN
        IF Contains(c2, COMPILE_TIME)
        THEN <<"Show compile time: on">> ELSE <<"Show compile time: off">>
    ELSE IF l = CmdG THEN
        IF Contains(c2, CAPTURE_GROUPS)
        THEN <<"Show capture groups: on">> ELSE <<"Show capture groups: off">>
    ELSE IF l = CmdH \/ l = CmdHelp THEN <<HELP>>
    ELSE <<>>

\* options_menu(line, config): the Action returned, config afterwards and
\* what was written to stderr
OptionsMenu(l, c) ==
    [action |-> MenuAction(l),
     config |-> MenuConfig(l, c),
     out    |-> MenuOut(l, MenuConfig(l, c))]

(* -------------------------- messages of the prompts ------------------- *)

VerboseErr(e) ==
    <<"Error compiling regex: " \o e>>

TerseErr ==
    <<"Failed to compile regex", "Turn on verbose errors with :v">>

\* the elapsed time is not modelled
CompileTimeMsg ==
    "Regex compiled in <n>ns"

\* mutant: the verbose-errors toggle is not consulted
CompileErrOut_alwaysVerbose(c, e) ==
    VerboseErr(e)

\* stderr of regex_prompt when Regex::new fails
CompileErrOut(c, e) ==
    IF Contains(c, VERBOSE_ERRORS) THEN VerboseErr(e) ELSE TerseErr

\* mutant: the compile-time toggle is not consulted
CompileOkOut_always(c) ==
    <<CompileTimeMsg>>

\* stderr of regex_prompt after Regex::new succeeds
CompileOkOut(c) ==
    IF Contains(c, COMPILE_TIME) THEN <<CompileTimeMsg>> ELSE <<>>

\* mutant: the capture-groups test is inverted
TestOut_inverted(c, r, l) ==
    IF ~Contains(c, CAPTURE_GROUPS) THEN
        LET caps == Captures(r, l)
        IN  IF caps = None THEN <<"Failed to match">>
            ELSE <<"Captures:">> \o
                 [i \in 1..Len(caps) |->
                     ToString(i - 1) \o ": " \o
                     (IF caps[i] = None THEN "None" ELSE Str(caps[i]))]
    ELSE IF IsMatch(r, l) THEN <<"Matched">> ELSE <<"Failed to match">>

\* mutant: the groups are numbered from 1
TestOut_fromOne(c, r, l) ==
    IF Contains(c, CAPTURE_GROUPS) THEN
        LET caps == Captures(r, l)
        IN  IF caps = None THEN <<"Failed to match">>
            ELSE <<"Captures:">> \o
                 [i \in 1..Len(caps) |->
                     ToString(i) \o ": " \o
                     (IF caps[i] = None THEN "None" ELSE Str(caps[i]))]
    ELSE IF IsMatch(r, l) THEN <<"Matched">> ELSE <<"Failed to match">>

\* stderr of prompt for a line that is not a command
TestOut(c, r, l) ==
    IF Contains(c, CAPTURE_GROUPS) THEN
        LET caps == Captures(r, l)
        IN  IF caps = None THEN <<"Failed to match">>
            ELSE <<"Captures:">> \o
                 [i \in 1..Len(caps) |->
                     ToString(i - 1) \o ": " \o
                     (IF caps[i] = None THEN "None" ELSE Str(caps[i]))]
    ELSE IF IsMatch(r, l) THEN <<"Matched">> ELSE <<"Failed to match">>

\* the text readline shows at the next read
PromptText ==
    IF pc = "regex" THEN "Input> "
    ELSE IF pc = "test" THEN "Regex(" \o Str(reg) \o ")> "
    ELSE ""

(* -------------------------- with_history_file ------------------------- *)

HistEnvs ==
    {"unix_home", "unix_nohome", "windows_appdata", "windows_noappdata", "other"}

\* whether the closure is called with a path, and what is printed otherwise
WithHistoryFile(env) ==
    IF env = "unix_home" \/ env = "windows_appdata" THEN
        [found |-> TRUE, out |-> <<>>]
    ELSE IF env = "unix_nohome" THEN
        [found |-> FALSE, out |-> <<"Failed to find history file">>]
    ELSE IF env = "windows_noappdata" THEN
        [found |-> FALSE, out |-> <<"Failed to find history">>]
    ELSE [found |-> FALSE,
          out |-> <<"Warning: unknown platform. Unable to determine location for history file.">>]

(* --------------------------------- main ------------------------------- *)

ArgNames ==
    {"no-verbose-errors", "capture", "no-compile-time"}

\* mutant: --capture assigns the flag instead of inserting it
ApplyArgs_assign(c, a) ==
    LET c1 == IF "no-verbose-errors" \in a THEN Remove(c, VERBOSE_ERRORS) ELSE c
    IN  IF "capture" \in a THEN CAPTURE_GROUPS ELSE c1

\* the configuration main builds from the matches of clap
ApplyArgs(c, a) ==
    LET c1 == IF "no-verbose-errors" \in a THEN Remove(c, VERBOSE_ERRORS) ELSE c
    IN  IF "capture" \in a THEN Insert(c1, CAPTURE_GROUPS) ELSE c1

\* mutant: the entry is added only once the line is known not to be a
\* command
AddHistoryEntry_notCommands(h, l) ==
    IF l \in Commands THEN h ELSE [adds |-> h.adds + 1, last |-> l]

\* editor.add_history_entry(&line), as called by regex_prompt and prompt;
\* what the editor keeps of its entries is not modelled
AddHistoryEntry(h, l) ==
    [adds |-> h.adds + 1, last |-> l]

\* the number of lines the user types: one more in the default environment
\* (no flags, HOME set), where the longest scenarios are explored
ReadLimit ==
    IF args = {} /\ histEnv = "unix_home" THEN MaxReads + 1 ELSE MaxReads

Init ==
    /\ args \in SUBSET ArgNames
    /\ histEnv \in HistEnvs
    /\ pc = "main"
    /\ config = ConfigDefault
    /\ reg = None
    /\ line = None
    /\ out = <<>>
    /\ ret = "none"
    /\ nread = 0
    /\ readAt = "none"
    /\ toggledAt = "none"
    /\ history = [adds |-> 0, last |-> None]
    /\ panicAt = "none"
    /\ histTried = 0
    /\ histSaved = 0
    /\ histFail = "none"

\* main, from the parsed arguments to the creation of the editor
MainArgs ==
    /\ pc = "main"
    /\ config' = ApplyArgs(config, args)
    /\ pc' = "load"
    /\ UNCHANGED <<args, histEnv, reg, line, out, ret, nread, readAt,
                   toggledAt, history, panicAt, histTried, histSaved,
                   histFail>>

\* with_history_file(|path| editor.load_history(path)); the Result is dropped
LoadHistory ==
    /\ pc = "load"
    /\ LET w == WithHistoryFile(histEnv)
       IN  /\ out' = w.out
           /\ IF w.found
              THEN \E ok \in BOOLEAN : histFail' = IF ok THEN "none" ELSE "load"
              ELSE histFail' = "locate"
    /\ pc' = "regex"
    /\ UNCHANGED <<args, histEnv, config, reg, line, ret, nread, readAt,
                   toggledAt, history, panicAt, histTried, histSaved>>

\* one call of regex_prompt, up to its return or to the first read of prompt
RegexPrompt ==
    /\ pc = "regex"
    /\ nread < ReadLimit
    /\ \E l \in Lines :
         LET m == OptionsMenu(l, config)
             r == RegexNew(l)
         IN  /\ line' = l
             /\ history' = AddHistoryEntry(history, l)
             /\ config' = m.config
             /\ IF m.action = "Exit" THEN
                    /\ pc' = "save" /\ ret' = "false"
                    /\ out' = m.out /\ reg' = reg
                ELSE IF m.action = "ToRegexPrompt" \/ m.action = "Loop" THEN
                    /\ pc' = "regex" /\ ret' = "true"
                    /\ out' = m.out /\ reg' = reg
                ELSE IF ~r.ok THEN
                    /\ pc' = "regex" /\ ret' = "true"
                    /\ out' = CompileErrOut(m.config, r.err) /\ reg' = reg
                ELSE
                    /\ pc' = "test" /\ ret' = "none"
                    /\ out' = CompileOkOut(m.config) /\ reg' = r.reg
    /\ nread' = nread + 1
    /\ readAt' = "regex"
    /\ toggledAt' = IF line' \in {CmdV, CmdT, CmdG} THEN "regex" ELSE toggledAt
    /\ UNCHANGED <<args, histEnv, panicAt, histTried, histSaved, histFail>>

\* mutant: prompt works on its own configuration, which is lost on :b
Prompt_ownConfig ==
    /\ pc = "test"
    /\ nread < ReadLimit
    /\ \E l \in Lines :
         LET m == OptionsMenu(l, config)
         IN  /\ line' = l
             /\ history' = AddHistoryEntry(history, l)
             /\ config' = IF m.action = "ToRegexPrompt"
                          THEN ConfigDefault ELSE m.config
             /\ IF m.action = "Exit" THEN
                    /\ pc' = "save" /\ ret' = "false"
                    /\ out' = m.out /\ reg' = None
                ELSE IF m.action = "Loop" THEN
                    /\ pc' = "test" /\ ret' = ret
                    /\ out' = m.out /\ reg' = reg
                ELSE IF m.action = "ToRegexPrompt" THEN
                    /\ pc' = "regex" /\ ret' = "true"
                    /\ out' = m.out /\ reg' = None
                ELSE
                    /\ pc' = "test" /\ ret' = ret
                    /\ out' = TestOut(m.config, reg, l) /\ reg' = reg
    /\ nread' = nread + 1
    /\ readAt' = "test"
    /\ toggledAt' = IF line' \in {CmdV, CmdT, CmdG} THEN "test" ELSE toggledAt
    /\ UNCHANGED <<args, histEnv, panicAt, histTried, histSaved, histFail>>

\* one iteration of the loop of prompt
Prompt ==
    /\ pc = "test"
    /\ nread < ReadLimit
    /\ \E l \in Lines :
         LET m == OptionsMenu(l, config)
         IN  /\ line' = l
             /\ history' = AddHistoryEntry(history, l)
             /\ config' = m.config
             /\ IF m.action = "Exit" THEN
                    /\ pc' = "save" /\ ret' = "false"
                    /\ out' = m.out /\ reg' = None
                ELSE IF m.action = "Loop" THEN
                    /\ pc' = "test" /\ ret' = ret
                    /\ out' = m.out /\ reg' = reg
                ELSE IF m.action = "ToRegexPrompt" THEN
                    /\ pc' = "regex" /\ ret' = "true"
                    /\ out' = m.out /\ reg' = None
                ELSE
                    /\ pc' = "test" /\ ret' = ret
                    /\ out' = TestOut(m.config, reg, l) /\ reg' = reg
    /\ nread' = nread + 1
    /\ readAt' = "test"
    /\ toggledAt' = IF line' \in {CmdV, CmdT, CmdG} THEN "test" ELSE toggledAt
    /\ UNCHANGED <<args, histEnv, panicAt, histTried, histSaved, histFail>>

\* mutant: a failed read ends the session like :q
ReadFail_quits ==
    /\ pc = "regex" \/ pc = "test"
    /\ pc' = "save"
    /\ panicAt' = panicAt
    /\ line' = None
    /\ out' = <<>>
    /\ readAt' = pc
    /\ UNCHANGED <<args, histEnv, config, reg, ret, nread, toggledAt,
                   history, histTried, histSaved, histFail>>

\* readline returns Err (end of input, interrupt): expect panics
ReadFail ==
    /\ pc = "regex" \/ pc = "test"
    /\ pc' = "panic"
    /\ panicAt' = "readline"
    /\ line' = None
    /\ out' = <<>>
    /\ readAt' = pc
    /\ UNCHANGED <<args, histEnv, config, reg, ret, nread, toggledAt,
                   history, histTried, histSaved, histFail>>

\* with_history_file(|path| editor.save_history(path).unwrap())
SaveHistory ==
    /\ pc = "save"
    /\ histTried' = histTried + 1
    /\ LET w == WithHistoryFile(histEnv)
       IN  /\ out' = w.out
           /\ IF w.found
              THEN /\ histSaved' = histSaved + 1
                   /\ \E ok \in BOOLEAN :
                        IF ok
                        THEN pc' = "done" /\ panicAt' = panicAt
                             /\ histFail' = histFail
                        ELSE pc' = "panic" /\ panicAt' = "save_history"
                             /\ histFail' = "save"
              ELSE /\ histSaved' = histSaved
                   /\ pc' = "done" /\ panicAt' = panicAt
                   /\ histFail' = "locate"
    /\ UNCHANGED <<args, histEnv, config, reg, line, ret, nread, readAt,
                   toggledAt, history>>

Next ==
    \/ MainArgs
    \/ LoadHistory
    \/ RegexPrompt
    \/ Prompt
    \/ ReadFail
    \/ SaveHistory

Spec ==
    Init /\ [][Next]_vars

(* ------------------------------ properties ---------------------------- *)

\* a step that reads a line at the regex prompt / at the test prompt
ReadAtRegex ==
    pc = "regex" /\ nread' = nread + 1

ReadAtTest ==
    pc = "test" /\ nread' = nread + 1

CommandSet ==
    {<<":", "q">>, <<":", "v">>, <<":", "t">>, <<":", "b">>, <<":", "g">>,
     <<":", "h">>, <<":", "?">>}

InSeq(x, sq) ==
    \E i \in 1..Len(sq) : sq[i] = x

\* C1: a non-command line that fails to compile at the regex prompt writes
\* the verbose message iff the verbose-errors toggle is set at that moment and
\* the terse two-line message otherwise; the test prompt is not entered, no
\* compile-time message is written, the configuration is unchanged and the
\* next line is read at the "Input> " prompt.
C1_CompileFailure ==
    [][ (ReadAtRegex /\ line' \notin CommandSet /\ ~RegexNew(line').ok) =>
          /\ (out' = <<"Error compiling regex: " \o RegexNew(line').err>>)
                <=> Contains(config, VERBOSE_ERRORS)
          /\ (out' = <<"Failed to compile regex", "Turn on verbose errors with :v">>)
                <=> ~Contains(config, VERBOSE_ERRORS)
          /\ ~InSeq(CompileTimeMsg, out')
          /\ pc' = "regex"
          /\ reg' = None
          /\ config' = config
          /\ PromptText' = "Input> " ]_vars

C1_Witness ==
    /\ pc = "regex"
    /\ readAt = "regex"
    /\ line = <<"(">>
    /\ ~Contains(config, VERBOSE_ERRORS)
    /\ out = <<"Failed to compile regex", "Turn on verbose errors with :v">>

\* C2: a failure to locate, load or save the history file is never fatal: the
\* program does not panic because of it.
C2_HistoryFailureNonFatal ==
    histFail # "none" => ~(pc = "panic" /\ panicAt = "save_history")

\* C3: started with --no-compile-time, the compile-time toggle is off at the
\* first prompt.
C3_NoCompileTimeFlag ==
    ("no-compile-time" \in args /\ pc = "regex" /\ nread = 0)
        => ~Contains(config, COMPILE_TIME)

\* C4: at the first prompt the configuration is the one the flags ask for:
\* verbose errors on unless --no-verbose-errors, capture groups off unless
\* -c/--capture, compile time on; no flags give all three defaults.
C4_InitialConfig ==
    (pc = "load" \/ (pc = "regex" /\ nread = 0)) =>
        /\ config \in 0..7
        /\ Contains(config, VERBOSE_ERRORS) <=> "no-verbose-errors" \notin args
        /\ Contains(config, CAPTURE_GROUPS) <=> "capture" \in args
        /\ "no-compile-time" \notin args => Contains(config, COMPILE_TIME)
        /\ args = {} => config = 5

C4_Witness ==
    /\ pc = "regex"
    /\ nread = 0
    /\ args = {"capture"}
    /\ config = 7

ReadStep ==
    ReadAtRegex \/ ReadAtTest

\* the bit of each toggle
BitV == 1
BitG == 2
BitT == 4

HasBit(c, b) ==
    (c \div b) % 2 = 1

ToggleBit(l) ==
    IF l = <<":", "v">> THEN BitV
    ELSE IF l = <<":", "t">> THEN BitT
    ELSE BitG

ToggleMsgs ==
    {<<"Verbose errors: on">>, <<"Verbose errors: off">>,
     <<"Show compile time: on">>, <<"Show compile time: off">>,
     <<"Show capture groups: on">>, <<"Show capture groups: off">>}

\* C5: at either prompt :v, :t and :g flip exactly their own toggle and leave
\* the other two toggles, the prompt mode and the compiled regex unchanged;
\* the line is neither compiled nor tested (only the toggle's status is
\* written).
C5_ToggleFrame ==
    [][ (ReadStep /\ line' \in {<<":", "v">>, <<":", "t">>, <<":", "g">>}) =>
          /\ \A b \in {BitV, BitG, BitT} :
                (HasBit(config', b) # HasBit(config, b)) <=> (b = ToggleBit(line'))
          /\ config' \in 0..7
          /\ pc' = pc
          /\ reg' = reg
          /\ out' \in ToggleMsgs ]_vars

C5_Witness ==
    /\ pc = "test"
    /\ readAt = "test"
    /\ line = <<":", "g">>
    /\ reg = <<"a", ".", "c">>
    /\ config = 7

\* C6: :q read at either prompt ends the session: regex_prompt returns false,
\* nothing is compiled or tested, the main loop is left, no further line is
\* read, and the history save is attempted exactly once afterwards
\* (save_history itself runs once when the history file is located);
\* regex_prompt returns false only when :q was read.
C6_Quit ==
    /\ [][ (ReadStep /\ line' = <<":", "q">>) =>
             /\ pc' = "save" /\ ret' = "false"
             /\ out' = <<>> /\ config' = config ]_vars
    /\ [][ (ret' = "false" /\ ret # "false") =>
             (ReadStep /\ line' = <<":", "q">>) ]_vars
    /\ [][ (pc \in {"save", "done", "panic"}) =>
             /\ nread' = nread /\ line' = line /\ readAt' = readAt
             /\ config' = config /\ reg' = reg
             /\ (pc' = "done" \/ pc' = "panic") ]_vars
    /\ [][ pc = "save" => (histTried = 0 /\ histTried' = 1) ]_vars
    /\ [](histTried = (IF ret = "false" /\ pc # "save" THEN 1 ELSE 0))
    /\ [](histSaved =
            (IF histTried = 1 /\ histEnv \in {"unix_home", "windows_appdata"}
             THEN 1 ELSE 0))
    /\ [](histTried = 1 => line = <<":", "q">>)

C6_Witness ==
    /\ pc = "done"
    /\ line = <<":", "q">>
    /\ readAt = "test"
    /\ ret = "false"
    /\ histTried = 1
    /\ histSaved = 1

\* C7: :b read at the test prompt discards the regex and the next line is
\* read at the regex prompt; read at the regex prompt it does nothing (the
\* next line is again read at the regex prompt, nothing is compiled); the
\* toggles are unchanged in both cases.
C7_Back ==
    [][ (ReadStep /\ line' = <<":", "b">>) =>
          /\ pc' = "regex"
          /\ PromptText' = "Input> "
          /\ reg' = None
          /\ out' = <<>>
          /\ config' = config
          /\ ret' = "true" ]_vars

C7_Witness ==
    /\ pc = "regex"
    /\ readAt = "test"
    /\ line = <<":", "b">>
    /\ reg = None

TestResults ==
    {"Matched", "Failed to match", "Captures:"}

\* C8: a line is a command exactly when it equals one of :q :v :t :b :g :h :?;
\* a command is never compiled or matched; every other line is compiled as a
\* regex at the regex prompt and tested against the current regex at the test
\* prompt.
C8_Dispatch ==
    [][ ReadStep =>
          /\ line' \in CommandSet =>
                /\ pc' \in {pc, "regex", "save"}
                /\ reg' \in {reg, None}
                /\ \A i \in 1..Len(out') :
                      /\ out'[i] \notin TestResults
                      /\ out'[i] # CompileTimeMsg
                      /\ out'[i] # "Failed to compile regex"
          /\ (line' \notin CommandSet /\ pc = "regex") =>
                /\ config' = config
                /\ \/ pc' = "test" /\ reg' = line'
                   \/ /\ pc' = "regex" /\ reg' = None
                      /\ out' # <<>>
                      /\ \A i \in 1..Len(out') :
                            out'[i] \notin TestResults /\ out'[i] # HELP
          /\ (line' \notin CommandSet /\ pc = "test") =>
                /\ config' = config
                /\ pc' = "test" /\ reg' = reg
                /\ out' # <<>> /\ out'[1] \in TestResults ]_vars

C8_Witness ==
    /\ pc = "test"
    /\ readAt = "test"
    /\ reg = <<":", "q", " ">>
    /\ line = <<":", "Q">>
    /\ out = <<"Failed to match">>

\* C9: with capture-group display off, a non-command line read at the test
\* prompt writes exactly one line, "Matched" when the regex matches it and
\* "Failed to match" otherwise; the prompt, the regex and the configuration
\* stay as they were.
C9_MatchResult ==
    [][ (ReadAtTest /\ line' \notin CommandSet /\ ~HasBit(config, BitG)) =>
          /\ out' = IF IsMatch(reg, line')
                    THEN <<"Matched">> ELSE <<"Failed to match">>
          /\ (reg = <<"a", ".", "c">> /\ line' = <<"a", "b", "c">>)
                => out' = <<"Matched">>
          /\ (reg = <<"a", ".", "c">> /\ line' = <<"a", "b">>)
                => out' = <<"Failed to match">>
          /\ (reg = <<"a", "b">> /\ line' = <<"a", "b", "c">>)
                => out' = <<"Matched">>
          /\ (reg = <<>>) => out' = <<"Matched">>
          /\ pc' = "test"
          /\ reg' = reg
          /\ config' = config ]_vars

C9_Witness ==
    /\ pc = "test"
    /\ readAt = "test"
    /\ ~HasBit(config, BitG)
    /\ reg = <<"a", ".", "c">>
    /\ line = <<"a", "b", "c">>
    /\ out = <<"Matched">>

ToggleCmds ==
    {<<":", "v">>, <<":", "t">>, <<":", "g">>}

\* C10: the configuration uses only the three defined bits; from every
\* configuration the program reaches, the same toggle command issued twice
\* restores it, and two different toggle commands give the same
\* configuration in either order.
C10_ToggleAlgebra ==
    /\ config \in 0..7
    /\ \A a \in ToggleCmds :
          LET c1 == OptionsMenu(a, config).config
          IN  /\ c1 # config
              /\ MenuConfig(a, c1) = config
              /\ \A b \in ToggleCmds \ {a} :
                    MenuConfig(b, c1) = MenuConfig(a, MenuConfig(b, config))

C10_Witness ==
    /\ config = 2
    /\ line = <<":", "t">>
    /\ nread >= 2

\* C11: a non-command line that compiles at the regex prompt moves the
\* program to the test prompt for that regex, whose prompt text is
\* "Regex(<source>)> "; the "Regex compiled in ..." message is written exactly
\* once for it iff the compile-time toggle is set at that moment, and is never
\* written for a failed compilation or for a command.
C11_CompileSuccess ==
    /\ [][ (ReadAtRegex /\ line' \notin CommandSet /\ RegexNew(line').ok) =>
             /\ pc' = "test"
             /\ reg' = line'
             /\ PromptText' = "Regex(" \o Str(line') \o ")> "
             /\ (line' = <<"a", ".", "c">>) => PromptText' = "Regex(a.c)> "
             /\ (line' = <<>>) => PromptText' = "Regex()> "
             /\ out' = IF HasBit(config, BitT)
                       THEN <<"Regex compiled in <n>ns">> ELSE <<>>
             /\ config' = config ]_vars
    /\ [][ (ReadAtRegex /\ line' \in {<<"a", ".", "c">>, <<>>, <<":", "Q">>})
             => pc' = "test" ]_vars
    /\ [][ (ReadStep /\ InSeq("Regex compiled in <n>ns", out')) =>
             /\ ReadAtRegex
             /\ line' \notin CommandSet
             /\ line' # <<"(">>
             /\ pc' = "test" ]_vars

C11_Witness ==
    /\ pc = "test"
    /\ readAt = "regex"
    /\ line = <<"a", ".", "c">>
    /\ reg = <<"a", ".", "c">>
    /\ HasBit(config, BitT)
    /\ out = <<"Regex compiled in <n>ns">>
    /\ PromptText = "Regex(a.c)> "

\* the texts a group of a match in line l can have
SubTexts(l) ==
    {SubSeq(l, a, b) : a \in 1..(Len(l) + 1), b \in 0..Len(l)}

GroupLines(i, l) ==
    {ToString(i) \o ": " \o Str(x) : x \in SubTexts(l)}
        \cup {ToString(i) \o ": None"}

\* C12: with capture-group display on, a non-command line read at the test
\* prompt that the regex does not match writes only "Failed to match"; one
\* that matches writes "Captures:" and then exactly one line per capture
\* group of the regex, numbered from 0, group 0 being the whole match and a
\* group that took no part in the match being written as "None"; "Matched" is
\* never written.
C12_CaptureDisplay ==
    [][ (ReadAtTest /\ line' \notin CommandSet /\ HasBit(config, BitG)) =>
          /\ ~InSeq("Matched", out')
          /\ IF IsMatch(reg, line')
             THEN /\ Len(out') = NGroups(reg) + 2
                  /\ out'[1] = "Captures:"
                  /\ \A i \in 2..Len(out') : out'[i] \in GroupLines(i - 2, line')
                  /\ out'[2] # "0: None"
             ELSE out' = <<"Failed to match">>
          /\ (reg = <<"(", "b", ")", "?", "c">> /\ line' = <<"a", "b", "c">>)
                => out' = <<"Captures:", "0: bc", "1: b">>
          /\ (reg = <<"(", "b", ")", "?", "c">> /\ line' = <<"a", ".", "c">>)
                => out' = <<"Captures:", "0: c", "1: None">>
          /\ (reg = <<"(", "b", ")", "?", "c">> /\ line' = <<"a", "b">>)
                => out' = <<"Failed to match">>
          /\ (reg = <<"a", ".", "c">> /\ line' = <<"a", "b", "c">>)
                => out' = <<"Captures:", "0: abc">>
          /\ pc' = "test"
          /\ reg' = reg
          /\ config' = config ]_vars

C12_Witness ==
    /\ pc = "test"
    /\ readAt = "test"
    /\ HasBit(config, BitG)
    /\ reg = <<"(", "b", ")", "?", "c">>
    /\ line = <<"a", ".", "c">>
    /\ out = <<"Captures:", "0: c", "1: None">>

\* C13: the status a toggle command writes is the state after the toggle: it
\* ends in "on" iff the command's flag is set in the configuration right
\* after the command, and in "off" otherwise.
C13_StatusAfterToggle ==
    [][ ReadStep =>
          /\ (line' = <<":", "v">>) =>
                out' = IF HasBit(config', BitV)
                       THEN <<"Verbose errors: on">>
                       ELSE <<"Verbose errors: off">>
          /\ (line' = <<":", "t">>) =>
                out' = IF HasBit(config', BitT)
                       THEN <<"Show compile time: on">>
                       ELSE <<"Show compile time: off">>
          /\ (line' = <<":", "g">>) =>
                out' = IF HasBit(config', BitG)
                       THEN <<"Show capture groups: on">>
                       ELSE <<"Show capture groups: off">> ]_vars

C13_Witness ==
    /\ readAt = "regex"
    /\ line = <<":", "t">>
    /\ ~HasBit(config, BitT)
    /\ out = <<"Show compile time: off">>

\* C14: :h and :? are equivalent and change nothing: at either prompt each
\* writes the help menu and leaves the three toggles, the prompt mode and the
\* current regex as they were.
C14_Help ==
    /\ [][ (ReadStep /\ line' \in {<<":", "h">>, <<":", "?">>}) =>
             /\ out' = <<HELP>>
             /\ config' = config
             /\ pc' = pc
             /\ reg' = reg
             /\ PromptText' = PromptText ]_vars
    /\ [](OptionsMenu(<<":", "h">>, config) = OptionsMenu(<<":", "?">>, config))

C14_Witness ==
    /\ pc = "test"
    /\ readAt = "test"
    /\ line = <<":", "?">>
    /\ reg = <<"a", ".", "c">>
    /\ out = <<HELP>>

\* C15: one configuration serves both prompts: entering or leaving the test
\* prompt never changes a toggle, only main's flag handling and the commands
\* :v, :t, :g change the configuration, and the configuration the toggles
\* left, at whichever prompt they were made, decides the error style and the
\* compile-time message of the next compilation and the display of the next
\* test.
C15_SharedConfig ==
    /\ [][ (pc \in {"regex", "test"} /\ pc' # pc) => config' = config ]_vars
    /\ [][ (config' # config) =>
             \/ pc = "main"
             \/ ReadStep /\ line' \in ToggleCmds /\ toggledAt' = pc ]_vars
    /\ [][ (ReadAtRegex /\ line' = <<"(">>) =>
             (out' = <<"Failed to compile regex", "Turn on verbose errors with :v">>
                 <=> ~HasBit(config, BitV)) ]_vars
    /\ [][ (ReadAtRegex /\ pc' = "test") =>
             (out' = <<>> <=> ~HasBit(config, BitT)) ]_vars
    /\ [][ (ReadAtTest /\ line' \notin CommandSet) =>
             (out'[1] \in {"Captures:", "Failed to match"}
                 <=> (HasBit(config, BitG) \/ out' = <<"Failed to match">>)) ]_vars

\* a toggle made at the test prompt (:v, verbose errors were on at the start)
\* decides the style of a compilation error after :b
C15_Witness ==
    /\ args = {}
    /\ toggledAt = "test"
    /\ pc = "regex"
    /\ readAt = "regex"
    /\ line = <<"(">>
    /\ config = 4
    /\ out = <<"Failed to compile regex", "Turn on verbose errors with :v">>

C17_ReadFailure ==
    /\ [][ (pc \in {"regex", "test"} /\ line' = None) =>
             /\ pc' = "panic"
             /\ panicAt' = "readline"
             /\ nread' = nread
             /\ history' = history
             /\ config' = config ]_vars
    /\ [][ (pc = "panic") => UNCHANGED vars ]_vars
    /\ [](panicAt = "readline" =>
            (pc = "panic" /\ histTried = 0 /\ histSaved = 0))
    /\ [](histSaved > 0 => (line = <<":", "q">> /\ ret = "false"))

C17_Witness ==
    /\ pc = "panic"
    /\ panicAt = "readline"
    /\ readAt = "test"
    /\ reg = <<"a", ".", "c">>
    /\ nread = 2
    /\ histTried = 0
    /\ histSaved = 0

====
